---- MODULE Spec2Model ----
(***************************************************************************)
(* Model of the SparseEnd2End head export (export_head_onnx.py) and of the  *)
(* E2EDataParallel wrapper (data_parallel.py).                              *)
(*                                                                         *)
(* Tensors are modelled row by row: a tensor of shape (batch, n, ...) is a  *)
(* sequence over the batch of sequences over the n instance slots.  The     *)
(* values produced by the learned sub-operators (attention, feed-forward,   *)
(* deformable aggregation, refinement, anchor encoder) are opaque: a slot   *)
(* written by the operator at dispatch position i holds the token           *)
(* <<i, b, k>>, an input slot holds <<InputStage, b, k>> or                 *)
(* <<TempStage, b, k>>.  Two slots are equal exactly when they hold the     *)
(* same token.                                                              *)
(***************************************************************************)
EXTENDS Integers, Sequences, FiniteSets, TLC

\* ------------------------------------------------------------------ bounds
MaxOps == 3         \* longest configured operation order
NumAnchor == 3      \* instance_bank.num_anchor (900 in the export driver)
BatchSize == 2      \* batch rows
NumCls == 2         \* classes of the classification score
MaxNsfd == 2        \* largest num_single_frame_decoder

Batch == 1..BatchSize
Slots == 1..NumAnchor
InputStage == 0 - 1   \* tag of a current-frame input slot
TempStage == 0 - 2    \* tag of a temporal input slot
NoTrack == 0 - 1      \* track_id.new_tensor(-1)

Tags == {"temp_gnn", "gnn", "norm", "ffn", "deformable", "refine"}

VARIABLES
    head,                      \* "1st" (Sparse4DHead1st) or "2rd" (Sparse4DHead2rd)
    operation_order,           \* self.operation_order
    layers,                    \* layers[p] = FALSE when self.layers[p-1] is None
    num_single_frame_decoder,  \* self.num_single_frame_decoder
    num_temp_instances,        \* self.instance_bank.num_temp_instances
    temp_instance_feature, temp_anchor, mask, track_id,
    instance_feature, anchor, anchor_embed, temp_anchor_embed,
    prediction, cls, qt,
    i,                         \* loop index of enumerate(operation_order), 0-based
    pc,                        \* "loop", "done", "error"
    visited,                   \* the (i, op) pairs enumerate() has yielded so far
    calls,                     \* arguments of the sub-operator calls made so far
    merge_log,                 \* one entry per execution of lines 239-260:
                               \* where it ran and the values it started from
    result                     \* the returned tuple

hvars == <<head, operation_order, layers, num_single_frame_decoder,
           num_temp_instances, temp_instance_feature, temp_anchor, mask,
           track_id, instance_feature, anchor, anchor_embed, temp_anchor_embed,
           prediction, cls, qt, i, pc, visited, calls, merge_log, result>>

\* E2EDataParallel (data_parallel.py)
VARIABLES
    device_ids,       \* self.device_ids
    parameters,       \* device of each tensor of self.module.parameters()
    buffers,          \* device of each tensor of self.module.buffers()
    method,           \* the entry point called: "forward", "train_step", "val_step"
    inputs,           \* the batch handed in, one entry per sample
    dp_pc,            \* "call", "assert", "check", "scatter", "done", "raised"
    t,                \* position of the loop over chain(parameters, buffers)
    scattered,        \* the scatter() calls made: device list and resulting shards
    invoked,          \* the calls made to the wrapped module: entry point and shard
    raised,           \* the exception that ended the call, or "none"
    dp_result         \* what the call returned

dvars == <<device_ids, parameters, buffers, method, inputs, dp_pc, t, scattered,
           invoked, raised, dp_result>>

\* The export driver (__main__ of export_head_onnx.py)
VARIABLES
    osec,             \* args.osec
    save_onnx1,       \* args.save_onnx1
    save_onnx2,       \* args.save_onnx2
    disk,             \* what each path holds
    logged,           \* the logger.info messages, in order
    saved,            \* the onnx.save calls, in order
    check,            \* simplify()'s verdict on each graph, "unset" before
    ex_pc,            \* the statement the script is at
    ex_error          \* the exception that ended the script, or "none"

evars == <<osec, save_onnx1, save_onnx2, disk, logged, saved, check, ex_pc, ex_error>>

\* dummpy_input, lines 340-362
VARIABLES
    nums_cam, input_h, input_w,
    dummy_spatial_shapes,
    scale_start_index,
    dummy_level_start_index,
    lv_pc             \* the statement dummpy_input is at

lvars == <<nums_cam, input_h, input_w, dummy_spatial_shapes, scale_start_index,
           dummy_level_start_index, lv_pc>>

vars == <<hvars, dvars, evars, lvars>>

\* ------------------------------------------------------- tensor helpers
\* A (batch, n) tensor all of whose slots were written at dispatch stage `stage`.
Tensor(stage, n) == [b \in Batch |-> [k \in 1..n |-> <<stage, b, k>>]]

\* The "absent" value (None, or a name not bound yet).
None == <<>>

\* self.anchor_encoder: a pure slot-wise function of the anchor.
anchor_encoder(a) ==
    [b \in DOMAIN a |-> [k \in DOMAIN a[b] |-> <<"anchor_encoder", a[b][k]>>]]

\* anchor_embed[:, : self.instance_bank.num_temp_instances]
SliceTemp(embed, n) == [b \in DOMAIN embed |-> SubSeq(embed[b], 1, n)]

\* Faulty variant: the selected rows in front of the temporal rows.
CatSwapped(x, y) == [b \in DOMAIN x |-> y[b] \o x[b]]

\* torch.cat([x, y], dim=1)
Cat(x, y) == [b \in DOMAIN x |-> x[b] \o y[b]]

\* Faulty variant: the operands of the select exchanged.
WhereSwapped(m, x, y) == [b \in DOMAIN m |-> IF m[b] THEN y[b] ELSE x[b]]

\* torch.where(mask[:, None, None], x, y): a per-row select.
Where(m, x, y) == [b \in DOMAIN m |-> IF m[b] THEN x[b] ELSE y[b]]

\* torch.where(mask[:, None], track_id, track_id.new_tensor(-1))
UpdateTrackId(m, tid) ==
    [b \in DOMAIN m |-> IF m[b] THEN tid[b] ELSE [k \in DOMAIN tid[b] |-> NoTrack]]

MaxOf(S) == CHOOSE x \in S : \A y \in S : y <= x

\* cls.max(dim=-1).values
ClsMax(scores) ==
    [b \in DOMAIN scores |->
        [k \in DOMAIN scores[b] |->
            MaxOf({scores[b][k][c] : c \in DOMAIN scores[b][k]})]]

\* ----------------------------------------------------------------- topk
\* Injective index sequences of length n over 1..m.
RECURSIVE IndexSeqs(_, _)
IndexSeqs(m, n) ==
    IF n = 0 THEN {<<>>}
    ELSE {Append(s, x) : s \in IndexSeqs(m, n - 1), x \in 1..m}

Injective(s) == \A p, q \in DOMAIN s : p # q => s[p] # s[q]

\* The index sequences torch.topk may return for one row: n distinct indices,
\* scores non-increasing, nothing left out that beats a selected one; the
\* order among equal scores is the implementation's.
TopKIndices(conf, n) ==
    {s \in IndexSeqs(Len(conf), n) :
        /\ Injective(s)
        /\ \A p \in 1..(n - 1) : conf[s[p]] >= conf[s[p + 1]]
        /\ \A k \in DOMAIN conf :
              (\A p \in 1..n : s[p] # k) => \A p \in 1..n : conf[s[p]] >= conf[k]}

\* topk(confidence, k, *inputs): every way of choosing the indices of the
\* rows 1..b (one sequence of indices per row).
RECURSIVE TopKRows(_, _, _)
TopKRows(confidence, n, b) ==
    IF b = 0 THEN {<<>>}
    ELSE {Append(f, s) : f \in TopKRows(confidence, n, b - 1),
                         s \in TopKIndices(confidence[b], n)}
TopK(confidence, n) == TopKRows(confidence, n, Len(confidence))

\* input.flatten(end_dim=1)[indices].reshape(bs, k, -1)
Gather(x, idx) == [b \in DOMAIN x |-> [j \in DOMAIN idx[b] |-> x[b][idx[b][j]]]]

\* ------------------------------------------------------------- refine
\* The class scores a refinement layer may produce: table 0 ranks the slots of
\* every row strictly, table 1 makes the two best slots of row 1 tie.
MinOf(x, y) == IF x <= y THEN x ELSE y
Score(s, b, k, c) ==
    LET rank == IF s = 0 THEN (k + b) % NumAnchor
                ELSE IF b = 1 THEN MinOf(k, NumAnchor - 1)
                ELSE (NumAnchor - k + b) % NumAnchor
    IN  2 * rank + ((c + k) % 2)
ClsTables ==
    {[b \in Batch |-> [k \in Slots |-> [c \in 1..NumCls |-> Score(s, b, k, c)]]] :
        s \in {0, 1}}

\* Faulty variant: return_cls requested at the final dispatch position only.
ReturnClsLastOnly(idx, npred, nsfd, nops) == idx = nops - 1

\* Faulty variant: the final dispatch position forgotten.
ReturnClsNoLast(idx, npred, nsfd, nops) == npred = nsfd - 1

\* return_cls=(len(prediction) == num_single_frame_decoder - 1
\*             or i == len(operation_order) - 1)
ReturnCls(idx, npred, nsfd, nops) == npred = nsfd - 1 \/ idx = nops - 1

\* What the refinement layer returns as cls and as qt.
RefineCls(idx, return_cls, scores) ==
    IF return_cls THEN [stage |-> idx, form |-> "per_class", scores |-> scores]
    ELSE [stage |-> idx, form |-> "placeholder", scores |-> None]
RefineQt(idx, return_cls) ==
    [stage |-> idx, form |-> IF return_cls THEN "quality" ELSE "placeholder"]

\* Faulty variant: the whole bank selected, the temporal rows not deducted.
SelectCountAll(num_anchor, num_temp) == num_anchor

\* N = self.instance_bank.num_anchor - self.instance_bank.num_temp_instances
SelectCount(num_anchor, num_temp) == num_anchor - num_temp

\* Faulty variant: >= for ==.
MergeFiresLate(npred, nsfd) == npred >= nsfd

\* if len(prediction) == self.num_single_frame_decoder
MergeFires(npred, nsfd) == npred = nsfd

\* if i != len(self.operation_order) - 1
NotLast(idx, nops) == idx # nops - 1

\* Faulty variant: >= for >.
PastSingleFrameEq(npred, nsfd) == npred >= nsfd

\* if len(prediction) > self.num_single_frame_decoder
PastSingleFrame(npred, nsfd) == npred > nsfd

\* Faulty variant: a position jumped over.
NextIndexSkip(idx) == idx + 2

\* for i, op in enumerate(...): the index of the next iteration.
NextIndex(idx) == idx + 1

Unbound == [stage |-> InputStage, form |-> "unbound", scores |-> None]
UnboundQt == [stage |-> InputStage, form |-> "unbound"]

\* ------------------------------------------------- configuration, inputs
\* Operation orders of 1..MaxOps descriptors; at most one layer is None.
Orders == UNION {[1..n -> Tags] : n \in 1..MaxOps}
LayersOf(order) ==
    {l \in [DOMAIN order -> BOOLEAN] :
        Cardinality({p \in DOMAIN order : ~l[p]}) <= 1}

\* num_temp_instances: a proper part of the bank, or the whole bank.
TempChoices == {1, NumAnchor}

\* The track identities handed in: all distinct, none the sentinel.
TrackIdInput == [b \in Batch |-> [k \in Slots |-> 10 * b + k]]

InitHead ==
    /\ head \in {"1st", "2rd"}
    /\ operation_order \in Orders
    /\ layers \in LayersOf(operation_order)
    /\ num_single_frame_decoder \in 1..MaxNsfd
    /\ instance_feature = Tensor(InputStage, NumAnchor)
    /\ anchor = Tensor(InputStage, NumAnchor)
    /\ anchor_embed = anchor_encoder(anchor)
    /\ IF head = "2rd"
       THEN /\ num_temp_instances \in TempChoices
            /\ temp_instance_feature = Tensor(TempStage, num_temp_instances)
            /\ temp_anchor = Tensor(TempStage, num_temp_instances)
            /\ temp_anchor_embed = anchor_encoder(temp_anchor)
            /\ mask \in [Batch -> BOOLEAN]
            /\ track_id = TrackIdInput
       ELSE /\ num_temp_instances = 0
            /\ temp_instance_feature = None
            /\ temp_anchor = None
            /\ temp_anchor_embed = None
            /\ mask = None
            /\ track_id = None
    /\ prediction = <<>>
    /\ cls = Unbound
    /\ qt = UnboundQt
    /\ i = 0
    /\ pc = "loop"
    /\ visited = <<>>
    /\ calls = <<>>
    /\ merge_log = <<>>
    /\ result = None

\* ------------------------------------------------------- the dispatch loop
NumOps == Len(operation_order)
Op == operation_order[i + 1]
InLoop(h) == pc = "loop" /\ head = h /\ i < NumOps

Call(op, key_pos, return_cls) ==
    [pos |-> i, op |-> op, key_pos |-> key_pos, return_cls |-> return_cls]

\* What every iteration does whatever its branch: take (i, op), move on.
Iterate ==
    /\ visited' = Append(visited, [i |-> i, op |-> Op])
    /\ i' = NextIndex(i)

\* What no step of a head changes: the configuration, the read-only inputs,
\* and the state of the other parts of the repository.
cfgvars == <<head, operation_order, layers, num_single_frame_decoder,
             num_temp_instances, temp_instance_feature, temp_anchor, mask,
             dvars, evars, lvars>>

\* if self.layers[i] is None: continue
Skip(h) ==
    /\ InLoop(h)
    /\ ~layers[i + 1]
    /\ Iterate
    /\ UNCHANGED <<cfgvars, track_id, instance_feature, anchor, anchor_embed,
                   temp_anchor_embed, prediction, cls, qt, pc, calls,
                   merge_log, result>>

\* The four branches that only rewrite instance_feature.
FeatureOp(h, tags, key_pos) ==
    /\ InLoop(h)
    /\ layers[i + 1]
    /\ Op \in tags
    /\ Iterate
    /\ instance_feature' = Tensor(i, NumAnchor)
    /\ calls' = Append(calls, Call(Op, key_pos, FALSE))
    /\ UNCHANGED <<cfgvars, track_id, anchor, anchor_embed, temp_anchor_embed,
                   prediction, cls, qt, pc, merge_log, result>>

H1Skip == Skip("1st")
H1TempGnn == FeatureOp("1st", {"temp_gnn"}, temp_anchor_embed)
H1Gnn == FeatureOp("1st", {"gnn"}, None)
H1NormFfn == FeatureOp("1st", {"norm", "ffn"}, None)
H1Deformable == FeatureOp("1st", {"deformable"}, None)

H1Refine ==
    /\ InLoop("1st")
    /\ layers[i + 1]
    /\ Op = "refine"
    /\ Iterate
    /\ LET return_cls == ReturnCls(i, Len(prediction), num_single_frame_decoder, NumOps)
       IN  /\ \E scores \in (IF return_cls THEN ClsTables ELSE {None}) :
                cls' = RefineCls(i, return_cls, scores)
           /\ qt' = RefineQt(i, return_cls)
           /\ calls' = Append(calls, Call("refine", None, return_cls))
    /\ anchor' = Tensor(i, NumAnchor)
    /\ prediction' = Append(prediction, anchor')
    /\ anchor_embed' = IF NotLast(i, NumOps) THEN anchor_encoder(anchor') ELSE anchor_embed
    /\ UNCHANGED <<cfgvars, track_id, instance_feature, temp_anchor_embed, pc,
                   merge_log, result>>

\* return instance_feature, anchor, cls, qt
H1Return ==
    /\ pc = "loop" /\ head = "1st" /\ i = NumOps
    /\ IF cls.form = "unbound"
       THEN pc' = "error" /\ result' = None
       ELSE /\ pc' = "done"
            /\ result' = [instance_feature |-> instance_feature, anchor |-> anchor,
                          cls |-> cls, qt |-> qt, track_id |-> None]
    /\ UNCHANGED <<cfgvars, track_id, instance_feature, anchor, anchor_embed,
                   temp_anchor_embed, prediction, cls, qt, i, visited, calls,
                   merge_log>>

H2Skip == Skip("2rd")
H2TempGnn == FeatureOp("2rd", {"temp_gnn"}, temp_anchor_embed)
H2Gnn == FeatureOp("2rd", {"gnn"}, None)
H2NormFfn == FeatureOp("2rd", {"norm", "ffn"}, None)
H2Deformable == FeatureOp("2rd", {"deformable"}, None)

\* Lines 239-260 for one choice idx of the top-k indices.
Merge(refined, scores, idx) ==
    LET selected_feature == Cat(temp_instance_feature, Gather(instance_feature, idx))
        selected_anchor == Cat(temp_anchor, Gather(refined, idx))
    IN  /\ instance_feature' = Where(mask, selected_feature, instance_feature)
        /\ anchor' = Where(mask, selected_anchor, refined)
        /\ track_id' = UpdateTrackId(mask, track_id)
        /\ cls' = [stage |-> i, form |-> "max", scores |-> ClsMax(scores)]
        /\ merge_log' = Append(merge_log,
                [pos |-> i, npred |-> Len(prediction) + 1,
                 instance_feature |-> instance_feature, anchor |-> refined])

H2Refine ==
    /\ InLoop("2rd")
    /\ layers[i + 1]
    /\ Op = "refine"
    /\ Iterate
    /\ LET return_cls == ReturnCls(i, Len(prediction), num_single_frame_decoder, NumOps)
           refined == Tensor(i, NumAnchor)
           npred == Len(prediction) + 1
       IN  /\ qt' = RefineQt(i, return_cls)
           /\ calls' = Append(calls, Call("refine", None, return_cls))
           /\ prediction' = Append(prediction, refined)
           /\ \E scores \in (IF return_cls THEN ClsTables ELSE {None}) :
                IF MergeFires(npred, num_single_frame_decoder)
                THEN IF return_cls
                     THEN /\ \E idx \in TopK(ClsMax(scores),
                                            SelectCount(NumAnchor, num_temp_instances)) :
                                Merge(refined, scores, idx)
                          /\ pc' = "loop"
                     ELSE \* None.max(...) raises
                          /\ pc' = "error"
                          /\ cls' = RefineCls(i, return_cls, scores)
                          /\ anchor' = refined
                          /\ UNCHANGED <<instance_feature, track_id, merge_log>>
                ELSE /\ cls' = RefineCls(i, return_cls, scores)
                     /\ anchor' = refined
                     /\ pc' = "loop"
                     /\ UNCHANGED <<instance_feature, track_id, merge_log>>
           /\ anchor_embed' = IF pc' = "loop" /\ NotLast(i, NumOps)
                              THEN anchor_encoder(anchor') ELSE anchor_embed
           /\ temp_anchor_embed' =
                IF pc' = "loop" /\ PastSingleFrame(npred, num_single_frame_decoder)
                THEN SliceTemp(anchor_embed', num_temp_instances)
                ELSE temp_anchor_embed
    /\ UNCHANGED <<cfgvars, result>>

\* return instance_feature, anchor, cls, qt, track_id
H2Return ==
    /\ pc = "loop" /\ head = "2rd" /\ i = NumOps
    /\ IF cls.form = "unbound"
       THEN pc' = "error" /\ result' = None
       ELSE /\ pc' = "done"
            /\ result' = [instance_feature |-> instance_feature, anchor |-> anchor,
                          cls |-> cls, qt |-> qt, track_id |-> track_id]
    /\ UNCHANGED <<cfgvars, track_id, instance_feature, anchor, anchor_embed,
                   temp_anchor_embed, prediction, cls, qt, i, visited, calls,
                   merge_log>>

NextHead ==
    \/ H1Skip \/ H1TempGnn \/ H1Gnn \/ H1NormFfn \/ H1Deformable \/ H1Refine \/ H1Return
    \/ H2Skip \/ H2TempGnn \/ H2Gnn \/ H2NormFfn \/ H2Deformable \/ H2Refine \/ H2Return


\* ===================================================== properties: the heads
Merged == merge_log # <<>>
JustMerged == Merged /\ i = merge_log[1].pos + 1
Sentinel(row) == \A k \in DOMAIN row : row[k] = NoTrack
NumSelected == NumAnchor - num_temp_instances

\* The dispatch positions (0-based) below `upto` whose refine layer ran.
RefinesBefore(upto) ==
    {p \in 0..(upto - 1) : operation_order[p + 1] = "refine" /\ layers[p + 1]}
LastRefine == MaxOf(RefinesBefore(NumOps))

\* C1 as stated: whatever the operation order, a row whose continuation mask
\* is false is returned with the sentinel in every track identity slot.
C1_SentinelAlways ==
    (pc = "done" /\ head = "2rd") =>
        \A b \in Batch : ~mask[b] => Sentinel(result.track_id[b])

\* C1 amended: once the merge has run, a row whose continuation mask is false
\* has the sentinel in every track identity slot (also in the returned
\* tensor); right after the merge its instance feature and anchor are the
\* values the merge started from; as long as the merge has not run, the track
\* identities are the ones handed in.
C1_MaskFalseRow ==
    head = "2rd" =>
        \A b \in Batch :
            /\ (Merged /\ ~mask[b]) => Sentinel(track_id[b])
            /\ (Merged /\ ~mask[b] /\ pc = "done") => Sentinel(result.track_id[b])
            /\ (JustMerged /\ ~mask[b]) =>
                  /\ instance_feature[b] = merge_log[1].instance_feature[b]
                  /\ anchor[b] = merge_log[1].anchor[b]
            /\ ~Merged => track_id[b] = TrackIdInput[b]

C1_Witness ==
    /\ head = "2rd" /\ pc = "done" /\ Merged
    /\ \E b, d \in Batch : ~mask[b] /\ mask[d]
    /\ num_temp_instances < NumAnchor

\* One row is a top-n selection of `pre`: n distinct slots of pre, in
\* non-increasing score order, none of the slots left out scoring higher
\* than a slot taken.
IsTopSelection(row, pre, conf, n) ==
    \E s \in IndexSeqs(Len(pre), n) :
        /\ \A p, q \in 1..n : p # q => s[p] # s[q]
        /\ \A p \in 1..n : row[p] = pre[s[p]]
        /\ \A p \in 1..(n - 1) : conf[s[p]] >= conf[s[p + 1]]
        /\ \A k \in DOMAIN pre, p \in 1..n :
              (\A q \in 1..n : s[q] # k) => conf[s[p]] >= conf[k]

\* C2: right after the merge, a row whose continuation mask is true holds the
\* temporal input rows in its first num_temp_instances slots, the top-N rows
\* of the pre-merge pair (the same N slots for feature and anchor) in the
\* others, and its track identities are the ones handed in.
C2_MaskTrueRow ==
    (head = "2rd" /\ JustMerged) =>
        \A b \in Batch : mask[b] =>
            /\ SubSeq(instance_feature[b], 1, num_temp_instances) = temp_instance_feature[b]
            /\ SubSeq(anchor[b], 1, num_temp_instances) = temp_anchor[b]
            /\ Len(instance_feature[b]) = NumAnchor /\ Len(anchor[b]) = NumAnchor
            /\ IsTopSelection(
                  [p \in 1..NumSelected |->
                      <<instance_feature[b][num_temp_instances + p],
                        anchor[b][num_temp_instances + p]>>],
                  [k \in Slots |->
                      <<merge_log[1].instance_feature[b][k], merge_log[1].anchor[b][k]>>],
                  cls.scores[b], NumSelected)
            /\ track_id[b] = TrackIdInput[b]

C2_Witness ==
    /\ head = "2rd" /\ JustMerged
    /\ \E b \in Batch : mask[b] /\ instance_feature[b][NumAnchor] # merge_log[1].instance_feature[b][NumAnchor]
    /\ num_temp_instances < NumAnchor
    /\ merge_log[1].instance_feature # Tensor(InputStage, NumAnchor)

\* C3: the merge runs at most once in a forward pass, and it runs exactly at
\* the refine stage that brings the number of executed refine stages to
\* num_single_frame_decoder: not before, not after, and never in the first-frame head.
C3_MergeOnce ==
    /\ Len(merge_log) <= 1
    /\ head = "1st" => ~Merged
    /\ head = "2rd" =>
          /\ Merged <=> Cardinality(RefinesBefore(i)) >= num_single_frame_decoder
          /\ Merged =>
                /\ merge_log[1].npred = num_single_frame_decoder
                /\ merge_log[1].pos \in RefinesBefore(i)
                /\ Cardinality(RefinesBefore(merge_log[1].pos + 1)) = num_single_frame_decoder

C3_Witness ==
    /\ head = "2rd" /\ pc = "done" /\ Merged
    /\ Cardinality(RefinesBefore(NumOps)) > num_single_frame_decoder
    /\ num_single_frame_decoder > 1

\* C4: in both heads the descriptors are taken in configured order, each
\* position once, and a descriptor whose layer is None changes nothing: not
\* the instance feature, the anchor, either embedding, the track identities,
\* the prediction list, the scores, nor does it raise.
C4_InOrder ==
    /\ i <= NumOps
    /\ visited = [p \in 1..i |-> [i |-> p - 1, op |-> operation_order[p]]]
    /\ Len(prediction) = Cardinality(RefinesBefore(i))
    /\ \A p \in 1..Len(calls) : layers[calls[p].pos + 1]
    /\ Cardinality({calls[p].pos : p \in 1..Len(calls)}) = Len(calls)
    /\ Len(calls) = Cardinality({p \in 1..i : layers[p]})

C4_NoneIsNoOp ==
    [][(pc = "loop" /\ i < NumOps /\ ~layers[i + 1]) =>
          /\ UNCHANGED <<instance_feature, anchor, anchor_embed, temp_anchor_embed,
                         track_id, prediction, cls, qt, calls, merge_log>>
          /\ pc' = "loop"
          /\ i' = i + 1]_vars

C4_Dispatch == []C4_InOrder /\ C4_NoneIsNoOp

C4_Witness ==
    /\ pc = "done" /\ NumOps = MaxOps
    /\ ~layers[1] /\ operation_order[1] = "refine"
    /\ Len(prediction) = 1

\* C5 as stated: the scores returned by either head always come from a refine
\* stage called with return_cls true, and the classification score is that
\* stage's per-class tensor.
C5_AlwaysDesignated ==
    pc = "done" => result.cls.form = "per_class" /\ result.qt.form = "quality"

\* C5 amended: the scores returned are those of the last refine stage that
\* ran.  If that stage is at the final dispatch position or is the
\* num_single_frame_decoder-th refine, it was called with return_cls true:
\* the quality score is real and the classification score is the per-class
\* tensor, except in the subsequent-frame head when that stage is the merge
\* stage, where it is the max over the classes.  Otherwise both are
\* placeholders.
C5_LastRefine ==
    pc = "done" =>
        LET designated ==
                \/ LastRefine = NumOps - 1
                \/ Cardinality(RefinesBefore(NumOps)) = num_single_frame_decoder
            merged_last == head = "2rd" /\ Merged /\ merge_log[1].pos = LastRefine
        IN  /\ result.cls.stage = LastRefine
            /\ result.qt.stage = LastRefine
            /\ result.qt.form = IF designated THEN "quality" ELSE "placeholder"
            /\ result.cls.form = IF ~designated THEN "placeholder"
                                 ELSE IF merged_last THEN "max" ELSE "per_class"

C5_Witness ==
    /\ pc = "done" /\ head = "2rd" /\ Merged
    /\ LastRefine = NumOps - 1
    /\ merge_log[1].pos < LastRefine
    /\ result.cls.form = "per_class"

\* The last sub-operator call, when it is the temp_gnn call of the stage just
\* left and the merge has run before it.
TempGnnAfterMerge ==
    /\ head = "2rd" /\ Merged /\ calls # <<>>
    /\ calls[Len(calls)].op = "temp_gnn"
    /\ calls[Len(calls)].pos = i - 1
    /\ merge_log[1].pos < i - 1
KeyPosUsed == calls[Len(calls)].key_pos
CurrentTempEmbed == SliceTemp(anchor_encoder(anchor), num_temp_instances)

\* C10 as stated: every temp_gnn stage after the merge gets, for every row,
\* the first num_temp_instances rows of the embedding of the current anchor
\* as its key positional embedding.
C10_KeyPosCurrent ==
    TempGnnAfterMerge => KeyPosUsed = CurrentTempEmbed

\* C10 amended: a temp_gnn stage after the merge gets the first
\* num_temp_instances rows of the embedding of the current anchor once a
\* later refine stage has run; between the merge and the next refine stage it
\* gets the embedding of the temporal input anchor, which is that slice of the
\* current anchor's embedding for the rows whose continuation mask is true
\* and for no other row.
C10_KeyPos ==
    TempGnnAfterMerge =>
        IF Len(prediction) > num_single_frame_decoder
        THEN KeyPosUsed = CurrentTempEmbed
        ELSE /\ KeyPosUsed = anchor_encoder(temp_anchor)
             /\ \A b \in Batch : mask[b] <=> KeyPosUsed[b] = CurrentTempEmbed[b]

C10_Witness ==
    /\ TempGnnAfterMerge
    /\ Len(prediction) > num_single_frame_decoder
    /\ \E b, d \in Batch : mask[b] /\ ~mask[d]
    /\ KeyPosUsed # anchor_encoder(temp_anchor)

\* The instance-count dimension of a (batch, instances, ...) tensor.
HasInstances(x, n) == \A b \in Batch : Len(x[b]) = n

\* C11: in the subsequent-frame head the instance feature, the anchor and the
\* track identity have num_instances slots in every row at every stage and in
\* the value returned; no stage raises (the only error is returning a
\* classification no refine stage ever bound); right after the merge a row
\* whose mask is true holds the temporal rows in front, and when
\* num_temporal_instances = num_instances it holds the temporal inputs alone.
C11_InstanceCount ==
    head = "2rd" =>
        /\ HasInstances(instance_feature, NumAnchor)
        /\ HasInstances(anchor, NumAnchor)
        /\ HasInstances(track_id, NumAnchor)
        /\ pc = "error" => cls.form = "unbound"
        /\ pc = "done" =>
              /\ HasInstances(result.instance_feature, NumAnchor)
              /\ HasInstances(result.anchor, NumAnchor)
              /\ HasInstances(result.track_id, NumAnchor)
        /\ JustMerged =>
              \A b \in Batch : mask[b] =>
                /\ SubSeq(instance_feature[b], 1, num_temp_instances)
                      = temp_instance_feature[b]
                /\ SubSeq(anchor[b], 1, num_temp_instances) = temp_anchor[b]
                /\ num_temp_instances = NumAnchor =>
                      /\ instance_feature[b] = temp_instance_feature[b]
                      /\ anchor[b] = temp_anchor[b]

\* The degenerate merge has run on a row that continues a track.
C11_Witness ==
    /\ head = "2rd" /\ pc = "loop" /\ JustMerged
    /\ num_temp_instances = NumAnchor
    /\ SelectCount(NumAnchor, num_temp_instances) = 0
    /\ \E b \in Batch : mask[b] /\ instance_feature[b] # merge_log[1].instance_feature[b]

\* The positions in `calls` of the refine call that makes the number of
\* executed refine stages equal to num_single_frame_decoder.
MergeCalls ==
    {p \in DOMAIN calls :
        /\ calls[p].op = "refine"
        /\ Cardinality({q \in 1..p : calls[q].op = "refine"}) = num_single_frame_decoder}

\* C12: the refine call of the merge stage is made with return_cls true, so
\* the merge runs (it does not raise on a placeholder), at that very dispatch
\* position, and the score it ranks by is the max over classes of the
\* per-class scores that call returned, not a placeholder and not the
\* classification of an earlier refine stage.
C12_MergeScoreFresh ==
    head = "2rd" =>
        /\ \A p \in MergeCalls :
              /\ calls[p].return_cls
              /\ pc # "error"
              /\ Merged
              /\ merge_log[1].pos = calls[p].pos
        /\ Merged => \E p \in MergeCalls : calls[p].pos = merge_log[1].pos
        /\ JustMerged =>
              /\ cls.stage = merge_log[1].pos
              /\ cls.form = "max"
              /\ cls.scores \in {ClsMax(tbl) : tbl \in ClsTables}

\* A merge that selects something, at a stage that is not the last one, after
\* an earlier refine stage whose classification was a placeholder.
C12_Witness ==
    /\ head = "2rd" /\ JustMerged
    /\ num_single_frame_decoder > 1
    /\ merge_log[1].pos < NumOps - 1
    /\ num_temp_instances < NumAnchor
    /\ \E b \in Batch : mask[b]
    /\ \E p \in DOMAIN calls : calls[p].op = "refine" /\ ~calls[p].return_cls

\* ====================================================== E2EDataParallel
MaxDevices == 2     \* devices 0..MaxDevices-1 besides the CPU
MaxTensors == 1     \* most parameters, and most buffers, of the wrapped module
MaxItems == 2       \* largest batch handed in

Cpu == 0 - 1        \* the CPU, and the "device -1" of the degenerate scatter
Gpus == 0..(MaxDevices - 1)
Devices == Gpus \cup {Cpu}

\* Device lists: distinct devices, in any order.
DeviceLists ==
    {l \in UNION {[1..n -> Gpus] : n \in 0..MaxDevices} : Injective(l)}

\* self.src_device_obj: torch.device(device_type, self.device_ids[0])
src_device_obj == device_ids[1]

\* scatter_kwargs(inputs, kwargs, device_ids, dim): the batch cut along dim
\* into consecutive chunks of ceil(n / number of devices) samples, one chunk
\* per device as long as samples are left.
ChunkSize(n, k) == (n + k - 1) \div k
Scatter(batch, devs) ==
    LET size == ChunkSize(Len(batch), Len(devs))
        count == IF size = 0 THEN 1 ELSE (Len(batch) + size - 1) \div size
    IN  [c \in 1..count |->
            SubSeq(batch, (c - 1) * size + 1, MinOf(c * size, Len(batch)))]

\* Faulty variant: only the parameters are looked at.
ChainParametersOnly(ps, bs) == ps

\* chain(self.module.parameters(), self.module.buffers())
Chain(ps, bs) == ps \o bs

\* Faulty variant: any non-empty device list accepted.
SingleDeviceAny(ids) == Len(ids) >= 1

\* assert len(self.device_ids) == 1
SingleDevice(ids) == Len(ids) = 1

InitDP ==
    /\ device_ids \in DeviceLists
    /\ parameters \in UNION {[1..n -> Devices] : n \in 0..MaxTensors}
    /\ buffers \in UNION {[1..n -> Devices] : n \in 0..MaxTensors}
    /\ method \in {"forward", "train_step", "val_step"}
    /\ inputs \in {[k \in 1..n |-> k] : n \in 1..MaxItems}
    /\ dp_pc = "call"
    /\ t = 1
    /\ scattered = <<>>
    /\ invoked = <<>>
    /\ raised = "none"
    /\ dp_result = None

\* What no step of the wrapper changes.
dpcfg == <<device_ids, parameters, buffers, method, inputs, hvars, evars, lvars>>

\* if not self.device_ids: scatter to [-1], call the module on inputs[0].
NoDevices(m) ==
    /\ dp_pc = "call" /\ method = m /\ device_ids = <<>>
    /\ LET shards == Scatter(inputs, <<Cpu>>)
       IN  /\ scattered' = Append(scattered, [devices |-> <<Cpu>>, shards |-> shards])
           /\ invoked' = Append(invoked, [method |-> m, shard |-> shards[1]])
           /\ dp_result' = [method |-> m, shards |-> <<shards[1]>>]
    /\ dp_pc' = "done"
    /\ UNCHANGED <<dpcfg, t, raised>>

\* The assert of train_step / val_step.
AssertSingle(m) ==
    /\ dp_pc = "call" /\ method = m /\ device_ids # <<>>
    /\ IF SingleDevice(device_ids)
       THEN dp_pc' = "check" /\ raised' = raised
       ELSE dp_pc' = "raised" /\ raised' = "AssertionError"
    /\ UNCHANGED <<dpcfg, t, scattered, invoked, dp_result>>

\* super().forward(...) with devices: no assert, straight to the device check.
ForwardEnter ==
    /\ dp_pc = "call" /\ method = "forward" /\ device_ids # <<>>
    /\ dp_pc' = "check"
    /\ UNCHANGED <<dpcfg, t, scattered, invoked, raised, dp_result>>

\* One iteration of: for t in chain(...): if t.device != src_device_obj: raise
CheckTensor(m) ==
    /\ dp_pc = "check" /\ method = m
    /\ LET tensors == Chain(parameters, buffers)
       IN  IF t > Len(tensors)
           THEN dp_pc' = "scatter" /\ UNCHANGED <<t, raised>>
           ELSE IF tensors[t] # src_device_obj
           THEN dp_pc' = "raised" /\ raised' = "RuntimeError" /\ t' = t
           ELSE dp_pc' = "check" /\ t' = t + 1 /\ raised' = raised
    /\ UNCHANGED <<dpcfg, scattered, invoked, dp_result>>

\* inputs, kwargs = self.scatter(inputs, kwargs, self.device_ids)
\* return self.module.<m>(*inputs[0], **kwargs[0])
ScatterInvoke(m) ==
    /\ dp_pc = "scatter" /\ method = m
    /\ m = "forward" => Len(device_ids) = 1
    /\ LET shards == Scatter(inputs, device_ids)
       IN  /\ scattered' = Append(scattered, [devices |-> device_ids, shards |-> shards])
           /\ invoked' = Append(invoked, [method |-> m, shard |-> shards[1]])
           /\ dp_result' = [method |-> m, shards |-> <<shards[1]>>]
    /\ dp_pc' = "done"
    /\ UNCHANGED <<dpcfg, t, raised>>

\* super().forward(...) on several devices: replicate, run every shard, gather.
ForwardParallel ==
    /\ dp_pc = "scatter" /\ method = "forward" /\ Len(device_ids) > 1
    /\ LET shards == Scatter(inputs, device_ids)
       IN  /\ scattered' = Append(scattered, [devices |-> device_ids, shards |-> shards])
           /\ invoked' = invoked \o [c \in DOMAIN shards |->
                                        [method |-> "forward", shard |-> shards[c]]]
           /\ dp_result' = [method |-> "forward", shards |-> shards]
    /\ dp_pc' = "done"
    /\ UNCHANGED <<dpcfg, t, raised>>

ForwardNoDevices == NoDevices("forward")
ForwardCheck == CheckTensor("forward")
ForwardSingle == ScatterInvoke("forward")
TrainNoDevices == NoDevices("train_step")
TrainAssert == AssertSingle("train_step")
TrainCheck == CheckTensor("train_step")
TrainScatter == ScatterInvoke("train_step")
ValNoDevices == NoDevices("val_step")
ValAssert == AssertSingle("val_step")
ValCheck == CheckTensor("val_step")
ValScatter == ScatterInvoke("val_step")

NextDP ==
    \/ ForwardNoDevices \/ ForwardEnter \/ ForwardCheck \/ ForwardSingle \/ ForwardParallel
    \/ TrainNoDevices \/ TrainAssert \/ TrainCheck \/ TrainScatter
    \/ ValNoDevices \/ ValAssert \/ ValCheck \/ ValScatter

\* ======================================================= the export driver
Paths == {"head1.onnx", "head2.onnx"}
Graphs == {1, 2}
SavePath(g) == IF g = 1 THEN save_onnx1 ELSE save_onnx2
Started(g) == [event |-> "start", graph |-> g]
Completed(g) == [event |-> "completed", graph |-> g]
Pc(stmt, g) == [stmt |-> stmt, graph |-> g]

InitExport ==
    /\ osec \in BOOLEAN
    /\ save_onnx1 \in Paths
    /\ save_onnx2 \in Paths
    /\ disk \in [Paths -> {<<"absent", 0>>, <<"stale", 0>>}]
    /\ logged = <<>>
    /\ saved = <<>>
    /\ check = [g \in Graphs |-> "unset"]
    /\ ex_pc = Pc("begin", 1)
    /\ ex_error = "none"

\* What no statement of the driver changes.
excfg == <<osec, save_onnx1, save_onnx2, hvars, dvars, lvars>>

\* if not args.osec: ... logger.info("Export Sparse4DHead1st Onnx ...")
BeginFirst ==
    /\ ex_pc = Pc("begin", 1)
    /\ IF ~osec
       THEN /\ logged' = Append(logged, Started(1))
            /\ ex_pc' = Pc("export", 1)
       ELSE /\ logged' = logged
            /\ ex_pc' = Pc("begin", 2)
    /\ UNCHANGED <<excfg, disk, saved, check, ex_error>>

\* head = Sparse4DHead2rd(...); logger.info("Export Sparse4DHead2rd Onnx ...")
BeginSecond ==
    /\ ex_pc = Pc("begin", 2)
    /\ logged' = Append(logged, Started(2))
    /\ ex_pc' = Pc("export", 2)
    /\ UNCHANGED <<excfg, disk, saved, check, ex_error>>

\* torch.onnx.export(head, inputs, path, ...): writes the traced graph, or raises.
Export(g) ==
    /\ ex_pc = Pc("export", g)
    /\ \/ /\ disk' = [disk EXCEPT ![SavePath(g)] = <<"traced", g>>]
          /\ ex_pc' = Pc("simplify", g)
          /\ ex_error' = ex_error
       \/ /\ ex_pc' = Pc("aborted", g)
          /\ ex_error' = "ExportError"
          /\ disk' = disk
    /\ UNCHANGED <<excfg, logged, saved, check>>

\* onnx_orig = onnx.load(path); onnx_simp, check = simplify(onnx_orig)
Simplify(g) ==
    /\ ex_pc = Pc("simplify", g)
    /\ \E verdict \in {"passed", "failed"} : check' = [check EXCEPT ![g] = verdict]
    /\ ex_pc' = Pc("assert", g)
    /\ UNCHANGED <<excfg, disk, logged, saved, ex_error>>

\* Faulty variant: the verdict not looked at.
CheckPassedIgnored(verdict) == TRUE

\* assert check, "Simplified ONNX model could not be validated"
CheckPassed(verdict) == verdict = "passed"

AssertCheck(g) ==
    /\ ex_pc = Pc("assert", g)
    /\ IF CheckPassed(check[g])
       THEN ex_pc' = Pc("save", g) /\ ex_error' = ex_error
       ELSE ex_pc' = Pc("aborted", g) /\ ex_error' = "AssertionError"
    /\ UNCHANGED <<excfg, disk, logged, saved, check>>

\* onnx.save(onnx_simp, path)
Save(g) ==
    /\ ex_pc = Pc("save", g)
    /\ disk' = [disk EXCEPT ![SavePath(g)] = <<"simplified", g>>]
    /\ saved' = Append(saved, [graph |-> g, path |-> SavePath(g)])
    /\ ex_pc' = Pc("log", g)
    /\ UNCHANGED <<excfg, logged, check, ex_error>>

\* logger.info('Export onnx completed. ONNX saved in "<path>"')
LogCompleted(g) ==
    /\ ex_pc = Pc("log", g)
    /\ logged' = Append(logged, Completed(g))
    /\ ex_pc' = IF g = 1 THEN Pc("begin", 2) ELSE Pc("finished", 2)
    /\ UNCHANGED <<excfg, disk, saved, check, ex_error>>

Export1 == Export(1)
Simplify1 == Simplify(1)
AssertCheck1 == AssertCheck(1)
Save1 == Save(1)
LogCompleted1 == LogCompleted(1)
Export2 == Export(2)
Simplify2 == Simplify(2)
AssertCheck2 == AssertCheck(2)
Save2 == Save(2)
LogCompleted2 == LogCompleted(2)

NextExport ==
    \/ BeginFirst \/ Export1 \/ Simplify1 \/ AssertCheck1 \/ Save1 \/ LogCompleted1
    \/ BeginSecond \/ Export2 \/ Simplify2 \/ AssertCheck2 \/ Save2 \/ LogCompleted2

\* ============================================================ dummpy_input
MaxCam == 3         \* largest nums_cam
MaxScale == 2       \* input sizes up to 32 * MaxScale
NumLevels == 4
Sizes == {8} \cup {32 * n : n \in 1..MaxScale}

InitLevel ==
    /\ nums_cam \in 1..MaxCam
    /\ input_h \in Sizes
    /\ input_w \in Sizes
    /\ dummy_spatial_shapes = None
    /\ scale_start_index = None
    /\ dummy_level_start_index = None
    /\ lv_pc = "shapes"

\* What no statement of dummpy_input changes.
lvcfg == <<nums_cam, input_h, input_w, hvars, dvars, evars>>

\* h_4x, w_4x = input_h // 4, input_w // 4 ... h_32x, w_32x
Stride(level) == IF level = 1 THEN 4 ELSE IF level = 2 THEN 8
                 ELSE IF level = 3 THEN 16 ELSE 32
LevelShape(level) == <<input_h \div Stride(level), input_w \div Stride(level)>>

\* torch.tensor([[h_4x, w_4x], ...]).int().unsqueeze(0).repeat(nums_cam, 1, 1)
SpatialShapes ==
    /\ lv_pc = "shapes"
    /\ dummy_spatial_shapes' =
          [cam \in 1..nums_cam |-> [level \in 1..NumLevels |-> LevelShape(level)]]
    /\ lv_pc' = "product"
    /\ UNCHANGED <<lvcfg, scale_start_index, dummy_level_start_index>>

\* x.flatten() of a (nums_cam, 4) tensor: camera-major.
Flatten(x) ==
    [p \in 1..(Len(x) * NumLevels) |->
        x[((p - 1) \div NumLevels) + 1][((p - 1) % NumLevels) + 1]]

\* dummy_spatial_shapes[..., 0] * dummy_spatial_shapes[..., 1]
Product ==
    /\ lv_pc = "product"
    /\ scale_start_index' =
          [cam \in DOMAIN dummy_spatial_shapes |->
              [level \in 1..NumLevels |->
                  dummy_spatial_shapes[cam][level][1] * dummy_spatial_shapes[cam][level][2]]]
    /\ lv_pc' = "cumsum"
    /\ UNCHANGED <<lvcfg, dummy_spatial_shapes, dummy_level_start_index>>

RECURSIVE SumTo(_, _)
SumTo(x, n) == IF n = 0 THEN 0 ELSE SumTo(x, n - 1) + x[n]

\* Faulty variant: the running sum started afresh at each camera.
CumsumPerCamera(x) ==
    [p \in DOMAIN x |->
        SumTo(x, p) - SumTo(x, ((p - 1) \div NumLevels) * NumLevels)]

\* x.cumsum(dim=0)
Cumsum(x) == [p \in DOMAIN x |-> SumTo(x, p)]

\* scale_start_index.flatten().cumsum(dim=0).int()
CumulativeSum ==
    /\ lv_pc = "cumsum"
    /\ scale_start_index' = Cumsum(Flatten(scale_start_index))
    /\ lv_pc' = "shift"
    /\ UNCHANGED <<lvcfg, dummy_spatial_shapes, dummy_level_start_index>>

\* torch.cat([torch.tensor([0]), scale_start_index[:-1]])
Shift ==
    /\ lv_pc = "shift"
    /\ scale_start_index' =
          <<0>> \o SubSeq(scale_start_index, 1, Len(scale_start_index) - 1)
    /\ lv_pc' = "reshape"
    /\ UNCHANGED <<lvcfg, dummy_spatial_shapes, dummy_level_start_index>>

\* scale_start_index.reshape(nums_cam, 4)
Reshape ==
    /\ lv_pc = "reshape"
    /\ dummy_level_start_index' =
          [cam \in 1..nums_cam |->
              [level \in 1..NumLevels |->
                  scale_start_index[(cam - 1) * NumLevels + level]]]
    /\ lv_pc' = "done"
    /\ UNCHANGED <<lvcfg, dummy_spatial_shapes, scale_start_index>>

NextLevel == SpatialShapes \/ Product \/ CumulativeSum \/ Shift \/ Reshape

\* ============================================ properties: the export driver
Range(seq) == {seq[p] : p \in DOMAIN seq}
SavedGraphs == {saved[p].graph : p \in DOMAIN saved}
OnDisk(content) == \E path \in Paths : disk[path] = content
InSecond == ex_pc.graph = 2

\* C6: for each graph the validity check passes before the simplified graph is
\* saved and before completion is logged (saved first, logged after); a failed
\* check aborts the script with nothing saved or logged for that graph, and a
\* failed first check leaves the second export unstarted.  The first export
\* is skipped exactly when --osec is set; the second export is started
\* whenever the script gets past the first part, and the script stops only
\* aborted or finished.
C6_CheckGates ==
    /\ \A g \in Graphs :
          /\ (g \in SavedGraphs \/ Completed(g) \in Range(logged)
                \/ OnDisk(<<"simplified", g>>)) => check[g] = "passed"
          /\ Completed(g) \in Range(logged) => g \in SavedGraphs
          /\ (check[g] = "failed" /\ ex_pc # Pc("assert", g)) =>
                /\ ex_pc = Pc("aborted", g)
                /\ ex_error = "AssertionError"
    /\ check[1] = "failed" =>
          /\ ~InSecond
          /\ Started(2) \notin Range(logged)
          /\ check[2] = "unset"
          /\ ~OnDisk(<<"traced", 2>>)
    /\ Started(1) \in Range(logged) <=> (~osec /\ ex_pc # Pc("begin", 1))
    /\ osec => check[1] = "unset" /\ ~OnDisk(<<"traced", 1>>) /\ 1 \notin SavedGraphs
    /\ Started(2) \in Range(logged) <=> (InSecond /\ ex_pc # Pc("begin", 2))
    /\ InSecond => (osec \/ Completed(1) \in Range(logged))
    /\ ex_pc.stmt = "finished" => Completed(2) \in Range(logged)
    /\ ex_pc.stmt \notin {"aborted", "finished"} => ENABLED NextExport

C6_Witness ==
    /\ ex_pc = Pc("aborted", 2) /\ check[2] = "failed" /\ ~osec
    /\ Completed(1) \in Range(logged)
    /\ disk[save_onnx2] = <<"traced", 2>>
    /\ save_onnx1 # save_onnx2 /\ disk[save_onnx1] = <<"simplified", 1>>

\* ============================================ properties: E2EDataParallel
Ended == dp_pc \in {"done", "raised"}
StepCall == method \in {"train_step", "val_step"}
AllOnSource == \A p \in DOMAIN (parameters \o buffers) :
                  (parameters \o buffers)[p] = device_ids[1]
Mismatches == {p \in DOMAIN (parameters \o buffers) :
                  (parameters \o buffers)[p] # device_ids[1]}
ShardsOf(devs) == [devices |-> devs, shards |-> Scatter(inputs, devs)]
RanOnEveryShard ==
    /\ scattered = <<ShardsOf(device_ids)>>
    /\ invoked = [c \in DOMAIN Scatter(inputs, device_ids) |->
                     [method |-> method, shard |-> Scatter(inputs, device_ids)[c]]]
    /\ dp_result # None

\* C7 as stated: train_step and val_step, like forward, shard the inputs
\* across the device list and run the module's step on the shards and return
\* a result, for any device count >= 1 (the module's tensors being in place).
C7_AnyDeviceCount ==
    (StepCall /\ Ended /\ device_ids # <<>> /\ AllOnSource) =>
        dp_pc = "done" /\ RanOnEveryShard

\* C7 amended: train_step and val_step do so for exactly one device: the
\* inputs are scattered to it, the step runs on the single shard, which is the
\* whole batch, and its result is returned.  With two or more devices they
\* raise AssertionError with nothing scattered and nothing run, where forward
\* shards the batch across the devices and runs every shard.
C7_SingleDevice ==
    (Ended /\ device_ids # <<>>) =>
        /\ (StepCall /\ Len(device_ids) = 1 /\ AllOnSource) =>
              /\ dp_pc = "done" /\ RanOnEveryShard
              /\ invoked = <<[method |-> method, shard |-> inputs]>>
              /\ dp_result = [method |-> method, shards |-> <<inputs>>]
        /\ (StepCall /\ Len(device_ids) >= 2) =>
              /\ raised = "AssertionError"
              /\ scattered = <<>> /\ invoked = <<>> /\ dp_result = None
        /\ (method = "forward" /\ AllOnSource) =>
              dp_pc = "done" /\ RanOnEveryShard

C7_Witness ==
    /\ StepCall /\ dp_pc = "done" /\ Len(device_ids) = 1
    /\ Len(inputs) = MaxItems /\ Len(parameters \o buffers) = 2 * MaxTensors

\* C8 as stated: with a non-empty device list and a parameter or buffer off
\* the source device, train_step and val_step raise RuntimeError, having
\* scattered nothing and run nothing.
C8_RuntimeErrorAnyCount ==
    (StepCall /\ device_ids # <<>> /\ Mismatches # {}) =>
        /\ scattered = <<>> /\ invoked = <<>>
        /\ Ended => raised = "RuntimeError"

\* C8 amended: with exactly one device and a parameter or buffer off it,
\* train_step and val_step raise RuntimeError at the first such tensor of
\* chain(parameters, buffers), having scattered nothing and run nothing, and
\* the call is over; with two or more devices the call ends in the
\* AssertionError of the single-device assert instead, equally with nothing
\* scattered and nothing run.
C8_RuntimeErrorSingle ==
    (StepCall /\ device_ids # <<>> /\ Mismatches # {}) =>
        /\ scattered = <<>> /\ invoked = <<>> /\ dp_result = None
        /\ dp_pc # "scatter"
        /\ t <= MinOf(CHOOSE p \in Mismatches : \A q \in Mismatches : p <= q,
                      Len(parameters \o buffers))
        /\ Ended =>
              /\ dp_pc = "raised"
              /\ raised = IF Len(device_ids) = 1 THEN "RuntimeError"
                          ELSE "AssertionError"
              /\ Len(device_ids) = 1 =>
                    t = CHOOSE p \in Mismatches : \A q \in Mismatches : p <= q
              /\ ~ENABLED NextDP

C8_Witness ==
    /\ StepCall /\ Len(device_ids) = 1 /\ raised = "RuntimeError"
    /\ parameters # <<>> /\ \A p \in DOMAIN parameters : parameters[p] = device_ids[1]
    /\ buffers # <<>> /\ buffers[1] # device_ids[1]

\* ================================================ properties: dummpy_input
AreaOf(level) == (input_h \div (2 ^ (level + 1))) * (input_w \div (2 ^ (level + 1)))
RECURSIVE AreaBelow(_)
AreaBelow(level) == IF level = 1 THEN 0 ELSE AreaBelow(level - 1) + AreaOf(level - 1)
AreaPerCamera == AreaBelow(NumLevels + 1)
ShapeOk ==
    /\ DOMAIN dummy_level_start_index = 1..nums_cam
    /\ \A cam \in 1..nums_cam : DOMAIN dummy_level_start_index[cam] = 1..NumLevels

\* C9 as stated: the level start index has shape (nums_cam, 4) and every
\* camera's row is the exclusive prefix sum of height*width over its own
\* levels, starting at 0 for every camera.
C9_ResetPerCamera ==
    lv_pc = "done" =>
        /\ ShapeOk
        /\ \A cam \in 1..nums_cam, level \in 1..NumLevels :
              dummy_level_start_index[cam][level] = AreaBelow(level)

\* C9 amended: the level start index has shape (nums_cam, 4) and is the
\* exclusive prefix sum of height*width over all (camera, level) pairs taken
\* camera by camera: the offset runs on from one camera to the next, so camera
\* c (counted from 0) starts at c times the area of one camera's four levels,
\* and only the first camera starts at 0.
C9_RunningOffset ==
    lv_pc = "done" =>
        /\ ShapeOk
        /\ \A cam \in 1..nums_cam, level \in 1..NumLevels :
              dummy_level_start_index[cam][level] =
                  (cam - 1) * AreaPerCamera + AreaBelow(level)

C9_Witness ==
    /\ lv_pc = "done" /\ nums_cam >= 2 /\ input_h # input_w
    /\ dummy_level_start_index[2][1] > 0
    /\ dummy_level_start_index[1][NumLevels] > dummy_level_start_index[1][1]

\* ========================================================= specifications
\* Each specification runs one part of the repository; the others are idle.
IdleHead ==
    /\ head = "none" /\ operation_order = <<>> /\ layers = <<>>
    /\ num_single_frame_decoder = 0 /\ num_temp_instances = 0
    /\ temp_instance_feature = None /\ temp_anchor = None /\ mask = None
    /\ track_id = None /\ instance_feature = None /\ anchor = None
    /\ anchor_embed = None /\ temp_anchor_embed = None /\ prediction = <<>>
    /\ cls = Unbound /\ qt = UnboundQt /\ i = 0 /\ pc = "idle"
    /\ visited = <<>> /\ calls = <<>> /\ merge_log = <<>> /\ result = None
IdleDP ==
    /\ device_ids = <<>> /\ parameters = <<>> /\ buffers = <<>>
    /\ method = "none" /\ inputs = <<>> /\ dp_pc = "idle" /\ t = 1
    /\ scattered = <<>> /\ invoked = <<>> /\ raised = "none" /\ dp_result = None
IdleExport ==
    /\ osec = FALSE /\ save_onnx1 = "head1.onnx" /\ save_onnx2 = "head2.onnx"
    /\ disk = [path \in Paths |-> <<"absent", 0>>] /\ logged = <<>> /\ saved = <<>>
    /\ check = [g \in Graphs |-> "unset"] /\ ex_pc = Pc("idle", 1)
    /\ ex_error = "none"
IdleLevel ==
    /\ nums_cam = 0 /\ input_h = 0 /\ input_w = 0
    /\ dummy_spatial_shapes = None /\ scale_start_index = None
    /\ dummy_level_start_index = None /\ lv_pc = "idle"

InitHeadOnly == InitHead /\ IdleDP /\ IdleExport /\ IdleLevel
InitDPOnly == IdleHead /\ InitDP /\ IdleExport /\ IdleLevel
InitExportOnly == IdleHead /\ IdleDP /\ InitExport /\ IdleLevel
InitLevelOnly == IdleHead /\ IdleDP /\ IdleExport /\ InitLevel

\* The two heads.
Spec == InitHeadOnly /\ [][NextHead]_vars

\* E2EDataParallel.
SpecDP == InitDPOnly /\ [][NextDP]_vars

\* The export driver.
SpecExport == InitExportOnly /\ [][NextExport]_vars

\* dummpy_input's level start index.
SpecLevel == InitLevelOnly /\ [][NextLevel]_vars

====
